---- MODULE Spec2Model ----
(***************************************************************************)
(* Model of homework.py: the fitness tracker's records (Training and its   *)
(* subclasses Running, SportsWalking, Swimming), the summary InfoMessage   *)
(* and the dispatcher read_package.                                        *)
(*                                                                         *)
(* Numbers.  A Python number is modelled by the exact rational it denotes, *)
(* the pair <<n, d>> in lowest terms with d > 0.  The one exception is the *)
(* float negative zero, <<0, -1>>, which arithmetic can produce and which  *)
(* "{0:.3f}".format shows as "-0.000".  Binary rounding of the doubles is  *)
(* not modelled: 0.65 is 13/20 and 157.50000000000003 is 315/2.            *)
(***************************************************************************)
EXTENDS Integers, Sequences, TLC

VARIABLES
    workout_type,  \* argument workout_type of the last read_package call
    data,          \* argument data of the last read_package call
    training,      \* object returned by the last read_package call, or NoTraining
    last_call,     \* name of the last function or method called
    raised,        \* exception the last call raised, "none" if it returned
    returned,      \* number the last method call returned (None if nothing)
    info,          \* InfoMessage returned by the last show_training_info, or NoInfo
    first_info,    \* InfoMessage first returned for the current training
    n_info         \* number of InfoMessages built for the current training

vars == <<workout_type, data, training, last_call, raised, returned,
          info, first_info, n_info>>

----------------------------------------------------------------------------
(* Bounds *)

\* longest list of raw fields handed to read_package
MaxFields == 6

\* number of summaries counted per training
MaxInfo == 2

----------------------------------------------------------------------------
(* Numbers *)

Abs(i) == IF i < 0 THEN -i ELSE i

RECURSIVE Gcd(_, _)
Gcd(a, b) == IF b = 0 THEN a ELSE Gcd(b, a % b)

\* the number n/d, d # 0, in lowest terms with a positive denominator
Norm(n, d) ==
    LET g == Gcd(Abs(n), Abs(d))
        s == IF d < 0 THEN -1 ELSE 1
    IN  <<(s * n) \div g, Abs(d) \div g>>

Num(i) == <<i, 1>>
PosZero == <<0, 1>>
NegZero == <<0, -1>>
None == <<>>

IsZero(a) == a[1] = 0
\* sign bit of the number: set for negative numbers and for -0.0
SignBit(a) == a[1] < 0 \/ (a[1] = 0 /\ a[2] < 0)
Zero(neg) == IF neg THEN NegZero ELSE PosZero

\* a * b (the common factors are taken out before the products are formed)
Mul(a, b) ==
    IF IsZero(a) \/ IsZero(b)
    THEN Zero(SignBit(a) # SignBit(b))
    ELSE LET g == Gcd(Abs(a[1]), b[2])
             h == Gcd(Abs(b[1]), a[2])
         IN  <<(a[1] \div g) * (b[1] \div h), (a[2] \div h) * (b[2] \div g)>>

\* a / b for b # 0 (Python raises ZeroDivisionError for b = 0)
Div(a, b) ==
    IF IsZero(a)
    THEN Zero(SignBit(a) # SignBit(b))
    ELSE Mul(a, IF b[1] < 0 THEN <<-b[2], -b[1]>> ELSE <<b[2], b[1]>>)

\* a + b
Add(a, b) ==
    IF IsZero(a) /\ IsZero(b)
    THEN Zero(SignBit(a) /\ SignBit(b))
    ELSE IF a[1] * Abs(b[2]) + b[1] * Abs(a[2]) = 0
    THEN PosZero
    ELSE Norm(a[1] * Abs(b[2]) + b[1] * Abs(a[2]), Abs(a[2]) * Abs(b[2]))

\* -a
Neg(a) == IF IsZero(a) THEN Zero(~SignBit(a)) ELSE <<-a[1], a[2]>>

\* a - b
Sub(a, b) == Add(a, Neg(b))

\* a ** 2
Pow2(a) == Mul(a, a)

\* a // b for b # 0: the whole part of the quotient towards minus infinity
FloorDiv(a, b) ==
    LET q == Div(a, b)
        f == q[1] \div q[2]
    IN  IF IsZero(q) \/ f = 0
        THEN Zero(SignBit(a) # SignBit(b))
        ELSE Num(f)

\* "{0:.3f}".format(a): three decimals, ties to the even digit
RECURSIVE Digits(_)
Digits(i) == IF i < 10 THEN ToString(i) ELSE Digits(i \div 10) \o ToString(i % 10)

Format3f(a) ==
    LET num  == Abs(a[1]) * 1000
        den  == Abs(a[2])
        q    == num \div den
        r    == num % den
        m    == IF 2 * r > den \/ (2 * r = den /\ q % 2 = 1) THEN q + 1 ELSE q
        frac == m % 1000
    IN  (IF SignBit(a) THEN "-" ELSE "")
        \o Digits(m \div 1000) \o "."
        \o ToString(frac \div 100) \o ToString((frac \div 10) % 10)
        \o ToString(frac % 10)

----------------------------------------------------------------------------
(* Class constants *)

M_IN_KM == Num(1000)
Training_LEN_STEP == <<13, 20>>
Running_LEN_STEP == <<13, 20>>
Running_coef_calorie_1 == Num(18)
Running_coef_calorie_2 == Num(20)
Running_minutes_in_hour == Num(60)
SportsWalking_LEN_STEP == <<13, 20>>
SportsWalking_coef_calorie_1 == <<7, 200>>
SportsWalking_coef_calorie_2 == <<29, 1000>>
SportsWalking_minutes_in_hour == Num(60)
Swimming_LEN_STEP == <<69, 50>>
Swimming_coef_calorie_1 == <<11, 10>>
Swimming_coef_calorie_2 == Num(2)

\* self.LEN_STEP: the attribute as the class of self resolves it
LEN_STEP(self) ==
    CASE self.cls = "Running" -> Running_LEN_STEP
      [] self.cls = "SportsWalking" -> SportsWalking_LEN_STEP
      [] self.cls = "Swimming" -> Swimming_LEN_STEP
      [] OTHER -> Training_LEN_STEP

----------------------------------------------------------------------------
(* Calls.  A method call yields the object as the call leaves it, the      *)
(* exception raised ("none" when the call returns) and the value returned. *)

Return(self, v) == [self |-> self, exc |-> "none", val |-> v]
Raise(self, e) == [self |-> self, exc |-> e, val |-> None]

NoTraining == [cls |-> "NoneType"]
NoInfo == [training_type |-> "", duration |-> "", distance |-> "",
           speed |-> "", calories |-> ""]

----------------------------------------------------------------------------
(* class InfoMessage *)

\* InfoMessage(...) as called by the method of object caller
InfoMessage__init__(caller, training_type, duration, distance, speed, calories) ==
    IF None \in {duration, distance, speed, calories}
    THEN Raise(caller, "TypeError")
    ELSE Return(caller, [training_type |-> training_type,
                         duration |-> Format3f(duration),
                         distance |-> Format3f(distance),
                         speed |-> Format3f(speed),
                         calories |-> Format3f(calories)])

----------------------------------------------------------------------------
(* class Training *)

Training__init__(cls, action, duration, weight) ==
    [cls |-> cls, action |-> action, duration |-> duration, weight |-> weight]

\* variant: the conversion to kilometres is stored back into self.action
Training_get_distance_InPlace(self) ==
    LET body(d) == Return([self EXCEPT !.action = d], d)
    IN  body(Div(Mul(self.action, LEN_STEP(self)), M_IN_KM))

Training_get_distance(self) ==
    Return(self, Div(Mul(self.action, LEN_STEP(self)), M_IN_KM))

\* self.get_distance(): no subclass overrides it
get_distance(self) == Training_get_distance(self)

Training_get_mean_speed(self) ==
    LET body(d) ==
            IF d.exc # "none" THEN d
            ELSE IF IsZero(d.self.duration)
            THEN Raise(d.self, "ZeroDivisionError")
            ELSE Return(d.self, Div(d.val, d.self.duration))
    IN  body(get_distance(self))

Training_get_spent_calories(self) == Return(self, None)

----------------------------------------------------------------------------
(* class Swimming(Training) *)

\* variant: the two pool attributes are bound the other way round
Swimming__init__Swapped(action, duration, weight, length_pool, count_pool) ==
    Training__init__("Swimming", action, duration, weight)
        @@ [length_pool |-> count_pool, count_pool |-> length_pool]

Swimming__init__(action, duration, weight, length_pool, count_pool) ==
    Training__init__("Swimming", action, duration, weight)
        @@ [length_pool |-> length_pool, count_pool |-> count_pool]

Swimming_get_mean_speed(self) ==
    IF IsZero(self.duration)
    THEN Raise(self, "ZeroDivisionError")
    ELSE Return(self, Div(Div(Mul(self.length_pool, self.count_pool),
                              M_IN_KM), self.duration))

\* variant: Swimming does not override get_mean_speed
get_mean_speed_NoOverride(self) == Training_get_mean_speed(self)

\* self.get_mean_speed(): Swimming overrides it
get_mean_speed(self) ==
    CASE self.cls = "Swimming" -> Swimming_get_mean_speed(self)
      [] OTHER -> Training_get_mean_speed(self)

Swimming_get_spent_calories(self) ==
    LET body(m) ==
            IF m.exc # "none" THEN m
            ELSE Return(m.self,
                     Mul(Mul(Add(m.val, Swimming_coef_calorie_1),
                             Swimming_coef_calorie_2),
                         m.self.weight))
    IN  body(get_mean_speed(self))

----------------------------------------------------------------------------
(* class Running(Training) *)

Running__init__(action, duration, weight) ==
    Training__init__("Running", action, duration, weight)

\* variant: the hours are not converted to minutes
Running_get_spent_calories_NoMinutes(self) ==
    LET body(m) ==
            IF m.exc # "none" THEN m
            ELSE Return(m.self,
                     Mul(Div(Mul(Sub(Mul(Running_coef_calorie_1, m.val),
                                     Running_coef_calorie_2),
                                 m.self.weight),
                             M_IN_KM),
                         m.self.duration))
    IN  body(get_mean_speed(self))

Running_get_spent_calories(self) ==
    LET body(m) ==
            IF m.exc # "none" THEN m
            ELSE Return(m.self,
                     Mul(Mul(Div(Mul(Sub(Mul(Running_coef_calorie_1, m.val),
                                         Running_coef_calorie_2),
                                     m.self.weight),
                                 M_IN_KM),
                             m.self.duration),
                         Running_minutes_in_hour))
    IN  body(get_mean_speed(self))

----------------------------------------------------------------------------
(* class SportsWalking(Training) *)

SportsWalking__init__(action, duration, weight, height) ==
    Training__init__("SportsWalking", action, duration, weight)
        @@ [height |-> height]

\* variant: the quotient is rounded to the nearest integer, not floored
SportsWalking_get_spent_calories_Rounded(self) ==
    LET body(m) ==
            IF m.exc # "none" THEN m
            ELSE IF IsZero(m.self.height)
            THEN Raise(m.self, "ZeroDivisionError")
            ELSE Return(m.self,
                     Mul(Mul(Add(Mul(SportsWalking_coef_calorie_1,
                                     m.self.weight),
                                 Mul(Mul(FloorDiv(Add(Div(Pow2(m.val),
                                                          m.self.height),
                                                      <<1, 2>>),
                                                  Num(1)),
                                         SportsWalking_coef_calorie_2),
                                     m.self.weight)),
                             m.self.duration),
                         SportsWalking_minutes_in_hour))
    IN  body(get_mean_speed(self))

SportsWalking_get_spent_calories(self) ==
    LET body(m) ==
            IF m.exc # "none" THEN m
            ELSE IF IsZero(m.self.height)
            THEN Raise(m.self, "ZeroDivisionError")
            ELSE Return(m.self,
                     Mul(Mul(Add(Mul(SportsWalking_coef_calorie_1,
                                     m.self.weight),
                                 Mul(Mul(FloorDiv(Pow2(m.val), m.self.height),
                                         SportsWalking_coef_calorie_2),
                                     m.self.weight)),
                             m.self.duration),
                         SportsWalking_minutes_in_hour))
    IN  body(get_mean_speed(self))

----------------------------------------------------------------------------
(* Method resolution and the inherited show_training_info *)

\* variant: Swimming does not override get_spent_calories
get_spent_calories_NoSwimming(self) ==
    CASE self.cls = "Running" -> Running_get_spent_calories(self)
      [] self.cls = "SportsWalking" -> SportsWalking_get_spent_calories(self)
      [] OTHER -> Training_get_spent_calories(self)

\* self.get_spent_calories(): each subclass overrides the base's empty one
get_spent_calories(self) ==
    CASE self.cls = "Running" -> Running_get_spent_calories(self)
      [] self.cls = "SportsWalking" -> SportsWalking_get_spent_calories(self)
      [] self.cls = "Swimming" -> Swimming_get_spent_calories(self)
      [] OTHER -> Training_get_spent_calories(self)

\* variant: building the summary resets the step counter
Training_show_training_info_Consuming(self) ==
    LET built(i) ==
            IF i.exc # "none" THEN i
            ELSE Return([i.self EXCEPT !.action = Num(0)], i.val)
        after_calories(d, m, c) ==
            IF c.exc # "none" THEN c
            ELSE built(InfoMessage__init__(c.self, self.cls, self.duration,
                                           d.val, m.val, c.val))
        after_speed(d, m) ==
            IF m.exc # "none" THEN m
            ELSE after_calories(d, m, get_spent_calories(m.self))
        after_distance(d) ==
            IF d.exc # "none" THEN d
            ELSE after_speed(d, get_mean_speed(d.self))
    IN  after_distance(get_distance(self))

Training_show_training_info(self) ==
    LET after_calories(d, m, c) ==
            IF c.exc # "none" THEN c
            ELSE InfoMessage__init__(c.self, self.cls, self.duration,
                                     d.val, m.val, c.val)
        after_speed(d, m) ==
            IF m.exc # "none" THEN m
            ELSE after_calories(d, m, get_spent_calories(m.self))
        after_distance(d) ==
            IF d.exc # "none" THEN d
            ELSE after_speed(d, get_mean_speed(d.self))
    IN  after_distance(get_distance(self))

show_training_info(self) == Training_show_training_info(self)

----------------------------------------------------------------------------
(* read_package *)

workouts == [SWM |-> "Swimming", RUN |-> "Running", WLK |-> "SportsWalking"]

\* variant: every __init__ also takes *args, so surplus fields are dropped
custom_class_Lenient(cls, args) ==
    CASE cls = "Running" ->
           IF Len(args) < 3 THEN [exc |-> "TypeError", val |-> NoTraining]
           ELSE [exc |-> "none",
                 val |-> Running__init__(args[1], args[2], args[3])]
      [] cls = "SportsWalking" ->
           IF Len(args) < 4 THEN [exc |-> "TypeError", val |-> NoTraining]
           ELSE [exc |-> "none",
                 val |-> SportsWalking__init__(args[1], args[2], args[3],
                                               args[4])]
      [] cls = "Swimming" ->
           IF Len(args) < 5 THEN [exc |-> "TypeError", val |-> NoTraining]
           ELSE [exc |-> "none",
                 val |-> Swimming__init__(args[1], args[2], args[3],
                                          args[4], args[5])]
      [] OTHER -> [exc |-> "AttributeError", val |-> NoTraining]

\* custom_class(*data): the call binds the list to the parameters of __init__
custom_class(cls, args) ==
    CASE cls = "Running" ->
           IF Len(args) # 3 THEN [exc |-> "TypeError", val |-> NoTraining]
           ELSE [exc |-> "none",
                 val |-> Running__init__(args[1], args[2], args[3])]
      [] cls = "SportsWalking" ->
           IF Len(args) # 4 THEN [exc |-> "TypeError", val |-> NoTraining]
           ELSE [exc |-> "none",
                 val |-> SportsWalking__init__(args[1], args[2], args[3],
                                               args[4])]
      [] cls = "Swimming" ->
           IF Len(args) # 5 THEN [exc |-> "TypeError", val |-> NoTraining]
           ELSE [exc |-> "none",
                 val |-> Swimming__init__(args[1], args[2], args[3],
                                          args[4], args[5])]
      [] OTHER -> [exc |-> "AttributeError", val |-> NoTraining]

\* variant: an unknown code falls back to a default class
read_package_Default(wt, d) ==
    IF wt \notin DOMAIN workouts
    THEN custom_class("Running", d)
    ELSE custom_class(workouts[wt], d)

read_package(wt, d) ==
    IF wt \notin DOMAIN workouts
    THEN [exc |-> "KeyError", val |-> NoTraining]
    ELSE custom_class(workouts[wt], d)

----------------------------------------------------------------------------
(* Inputs: the kind codes and the lists of raw fields handed to            *)
(* read_package.  The lists have every length up to MaxFields; position i  *)
(* holds one of FieldValues(i), among them the three sample packages.      *)

KindCodes == {"SWM", "RUN", "WLK", "XYZ", "swm"}

FieldValues(i) ==
    CASE i = 1 -> {Num(0), Num(720), Num(9000), Num(15000)}
      [] i = 2 -> {Num(-1), Num(0), <<1, 2>>, Num(1)}
      [] i = 3 -> {Num(75), Num(80)}
      [] i = 4 -> {Num(0), Num(25), Num(180)}
      [] i = 5 -> {Num(0), Num(40)}
      [] OTHER -> {Num(1)}

RECURSIVE Packages(_)
Packages(n) ==
    IF n = 0 THEN {<<>>}
    ELSE {Append(d, v) : d \in Packages(n - 1), v \in FieldValues(n)}

AllPackages == UNION {Packages(n) : n \in 0..MaxFields}

----------------------------------------------------------------------------
(* The program: a caller reads a package and calls the record's methods.   *)

Init ==
    /\ workout_type = ""
    /\ data = <<>>
    /\ training = NoTraining
    /\ last_call = "none"
    /\ raised = "none"
    /\ returned = None
    /\ info = NoInfo
    /\ first_info = NoInfo
    /\ n_info = 0

\* The loop of __main__ reads a package when it starts and after the summary
\* of the one before; an exception nobody catches ends the run.
ReadPackage(wt, d) ==
    LET r == read_package(wt, d)
    IN  /\ last_call \in {"none", "show_training_info"}
        /\ raised = "none"
        /\ workout_type' = wt
        /\ data' = d
        /\ training' = r.val
        /\ raised' = r.exc
        /\ last_call' = "read_package"
        /\ returned' = None
        /\ info' = NoInfo
        /\ first_info' = NoInfo
        /\ n_info' = 0

\* the caller's state once the method call `name` has left the result r
MethodCall(name, r) ==
    /\ training' = r.self
    /\ raised' = r.exc
    /\ last_call' = name
    /\ UNCHANGED <<workout_type, data>>

\* a method that returns a number
Number(r) ==
    /\ returned' = r.val
    /\ UNCHANGED <<info, first_info, n_info>>

\* a method that returns an InfoMessage
Summary(r) ==
    /\ returned' = None
    /\ info' = IF r.exc = "none" THEN r.val ELSE NoInfo
    /\ n_info' = IF r.exc = "none" THEN n_info + 1 ELSE n_info
    /\ first_info' = IF r.exc = "none" /\ n_info = 0 THEN r.val ELSE first_info

GetDistance ==
    /\ training # NoTraining
    /\ MethodCall("get_distance", get_distance(training))
    /\ Number(get_distance(training))

GetMeanSpeed ==
    /\ training # NoTraining
    /\ MethodCall("get_mean_speed", get_mean_speed(training))
    /\ Number(get_mean_speed(training))

GetSpentCalories ==
    /\ training # NoTraining
    /\ MethodCall("get_spent_calories", get_spent_calories(training))
    /\ Number(get_spent_calories(training))

ShowTrainingInfo ==
    /\ training # NoTraining
    /\ n_info < MaxInfo
    /\ MethodCall("show_training_info", show_training_info(training))
    /\ Summary(show_training_info(training))

Next ==
    \/ \E wt \in KindCodes, d \in AllPackages : ReadPackage(wt, d)
    \/ GetDistance
    \/ GetMeanSpeed
    \/ GetSpentCalories
    \/ ShowTrainingInfo

Spec == Init /\ [][Next]_vars

----------------------------------------------------------------------------
(* Properties.  Numbers are compared by cross-multiplied integers, so the  *)
(* formulas below do not reuse the arithmetic of the model.                *)

Recognized == {"SWM", "RUN", "WLK"}
Arity(wt) == CASE wt = "RUN" -> 3 [] wt = "WLK" -> 4 [] wt = "SWM" -> 5

\* the number a is the fraction n/d (d > 0)
Is(a, n, d) == a # None /\ a[1] * d = n * Abs(a[2])

Dispatched == last_call = "read_package"
Called(m) == last_call = m /\ training # NoTraining
Positive(a) == a[1] > 0

\* C1: read_package with a kind code other than SWM, RUN, WLK raises the
\* lookup's KeyError (the code's unknown-kind error) whatever the raw fields
\* are, and returns no record.
C1_UnknownKindFails ==
    (Dispatched /\ workout_type \notin Recognized)
        => (raised = "KeyError" /\ training = NoTraining)

C1_Witness ==
    /\ Dispatched /\ workout_type = "XYZ" /\ Len(data) = 3
    /\ raised = "KeyError" /\ training = NoTraining

\* C2: read_package with a recognized code and as many raw fields as the
\* kind takes (RUN 3, WLK 4, SWM 5) does not fail and returns a record of
\* the matching class whose attributes are the fields in positional order.
C2_DispatchBinds ==
    (Dispatched /\ workout_type \in Recognized
                /\ Len(data) = Arity(workout_type))
        => /\ raised = "none"
           /\ training.action = data[1]
           /\ training.duration = data[2]
           /\ training.weight = data[3]
           /\ workout_type = "RUN" =>
                 /\ training.cls = "Running"
                 /\ DOMAIN training = {"cls", "action", "duration", "weight"}
           /\ workout_type = "WLK" =>
                 /\ training.cls = "SportsWalking"
                 /\ training.height = data[4]
           /\ workout_type = "SWM" =>
                 /\ training.cls = "Swimming"
                 /\ training.length_pool = data[4]
                 /\ training.count_pool = data[5]

C2_Witness ==
    /\ Dispatched /\ workout_type = "SWM" /\ raised = "none"
    /\ data = <<Num(720), Num(1), Num(80), Num(25), Num(40)>>
    /\ training.cls = "Swimming"
    /\ training.length_pool = Num(25) /\ training.count_pool = Num(40)

\* C3: read_package with a recognized code and a number of raw fields other
\* than the kind's arity raises the call's TypeError (the code's arity
\* error, distinct from the unknown-kind KeyError) and returns no record.
C3_ArityMismatchFails ==
    (Dispatched /\ workout_type \in Recognized
                /\ Len(data) # Arity(workout_type))
        => (raised = "TypeError" /\ training = NoTraining)

C3_Witness ==
    /\ Dispatched /\ workout_type = "RUN" /\ Len(data) = 4
    /\ raised = "TypeError" /\ training = NoTraining

\* C4: no record with duration <= 0 exists: construction rejects it, so no
\* method is evaluated on such a record and no summary is built for it.
C4_NoNonPositiveDuration ==
    training # NoTraining => Positive(training.duration)

\* C5 as stated: for the RUN record (15000, 1, 75) distance is 9.75, mean
\* speed is 9.75 and calories are 700.875.
C5_RunSampleAsStated ==
    (workout_type = "RUN" /\ data = <<Num(15000), Num(1), Num(75)>>)
        => /\ Called("get_distance") => Is(returned, 39, 4)
           /\ Called("get_mean_speed") => Is(returned, 39, 4)
           /\ Called("get_spent_calories") => Is(returned, 700875, 1000)
           /\ (Called("show_training_info") /\ raised = "none") =>
                 /\ info.distance = "9.750" /\ info.speed = "9.750"
                 /\ info.calories = "700.875"

\* C5 amended: for the RUN record (15000, 1, 75) distance is 9.75, mean
\* speed is 9.75 and calories, (18 * 9.75 - 20) * 75 / 1000 * 1 * 60, are
\* 699.75, shown as 699.750.
C5_RunSample ==
    (workout_type = "RUN" /\ data = <<Num(15000), Num(1), Num(75)>>)
        => /\ ~Dispatched => raised = "none"
           /\ Called("get_distance") => Is(returned, 39, 4)
           /\ Called("get_mean_speed") => Is(returned, 39, 4)
           /\ Called("get_spent_calories") => Is(returned, 69975, 100)
           /\ Called("show_training_info") =>
                 /\ info.distance = "9.750" /\ info.speed = "9.750"
                 /\ info.calories = "699.750"

C5_Witness ==
    /\ workout_type = "RUN" /\ data = <<Num(15000), Num(1), Num(75)>>
    /\ Called("get_spent_calories") /\ Is(returned, 69975, 100)

\* the mean speed distance / duration of a record with LEN_STEP 0.65, as a
\* fraction in lowest terms
StepSpeed(t) ==
    Norm(t.action[1] * 13 * t.duration[2], 20000 * t.duration[1])

\* floor(speed^2 / height): the largest integer not above the quotient
FloorTerm(t) ==
    (StepSpeed(t)[1] * StepSpeed(t)[1])
        \div (StepSpeed(t)[2] * StepSpeed(t)[2] * t.height[1])

\* C6: for a walking record with duration > 0 and height > 0 calories are
\* (0.035 * weight + floor(speed^2 / height) * 0.029 * weight) * duration
\* * 60 with the floor of the quotient; when speed^2 < height they are
\* 0.035 * weight * duration * 60, which is 157.5 for (9000, 1, 75, 180).
C6_WalkingCalories ==
    (Called("get_spent_calories") /\ training.cls = "SportsWalking"
        /\ Positive(training.duration) /\ Positive(training.height))
        => /\ raised = "none"
           /\ Is(returned,
                 training.weight[1] * (35 + 29 * FloorTerm(training)) * 60
                     * training.duration[1],
                 1000 * training.duration[2])
           /\ StepSpeed(training)[1] * StepSpeed(training)[1]
                 < StepSpeed(training)[2] * StepSpeed(training)[2]
                       * training.height[1]
                 => Is(returned,
                       training.weight[1] * 35 * 60 * training.duration[1],
                       1000 * training.duration[2])
           /\ data = <<Num(9000), Num(1), Num(75), Num(180)>>
                 => Is(returned, 315, 2)

C6_Witness ==
    /\ Called("get_spent_calories") /\ training.cls = "SportsWalking"
    /\ data = <<Num(9000), Num(1), Num(75), Num(25)>>
    /\ FloorTerm(training) = 1 /\ Is(returned, 288, 1)

\* C7: for a swimming record with duration > 0 mean speed is length_pool *
\* count_pool / 1000 / duration (no step count in it), distance is action *
\* 1.38 / 1000 (no pool field in it) and calories are (speed + 1.1) * 2 *
\* weight with that speed; (720, 1, 80, 25, 40) gives 0.9936, 1.0, 336.0.
C7_SwimmingFormulas ==
    (training.cls = "Swimming" /\ Positive(training.duration))
        => /\ ~Dispatched => raised = "none"
           /\ Called("get_mean_speed") =>
                 Is(returned,
                    training.length_pool[1] * training.count_pool[1]
                        * training.duration[2],
                    1000 * training.duration[1])
           /\ Called("get_distance") =>
                 Is(returned, training.action[1] * 69, 50000)
           /\ Called("get_spent_calories") =>
                 Is(returned,
                    2 * training.weight[1]
                      * (10 * training.length_pool[1] * training.count_pool[1]
                            * training.duration[2]
                         + 11000 * training.duration[1]),
                    10000 * training.duration[1])
           /\ data = <<Num(720), Num(1), Num(80), Num(25), Num(40)>> =>
                 /\ Called("get_distance") => Is(returned, 9936, 10000)
                 /\ Called("get_mean_speed") => Is(returned, 1, 1)
                 /\ Called("get_spent_calories") => Is(returned, 336, 1)

C7_Witness ==
    /\ Called("get_spent_calories") /\ training.cls = "Swimming"
    /\ data = <<Num(720), Num(1), Num(80), Num(25), Num(40)>>
    /\ Is(returned, 336, 1)

\* C8: for a record with duration > 0, whatever was computed on it before,
\* a summary computed again is identical to the first one computed for it.
C8_SummaryIdempotent ==
    (Called("show_training_info") /\ raised = "none"
        /\ Positive(training.duration))
        => info = first_info

C8_Witness ==
    /\ Called("show_training_info") /\ raised = "none" /\ n_info = 2
    /\ Positive(training.duration)
    /\ info = first_info /\ info.calories = "336.000"

\* C9: a record returned by read_package is of one of the three concrete
\* classes, its get_spent_calories returns a number, never the None of the
\* base class, and its summary carries a numeric calories text.
C9_CaloriesSupplied ==
    training # NoTraining
        => /\ training.cls \in {"Running", "SportsWalking", "Swimming"}
           /\ (Called("get_spent_calories") /\ raised = "none")
                 => returned # None
           /\ Called("show_training_info") => raised # "TypeError"
           /\ (Called("show_training_info") /\ raised = "none")
                 => info.calories \notin {"", "None"}

C9_Witness ==
    /\ Called("get_spent_calories") /\ training.cls = "Swimming"
    /\ raised = "none" /\ returned # None

\* C10: get_distance, get_mean_speed, get_spent_calories and
\* show_training_info leave every attribute of the record as it was, also
\* when the call raises ZeroDivisionError.
C10_NoMutation ==
    [][(training # NoTraining /\ last_call' # "read_package")
          => training' = training]_vars

C10_Witness ==
    /\ Called("get_spent_calories") /\ raised = "ZeroDivisionError"
    /\ training.cls = "SportsWalking" /\ Positive(training.duration)
    /\ training.action = data[1] /\ training.duration = data[2]
    /\ training.weight = data[3] /\ training.height = data[4]

====
